---- MODULE Spec2Model ----
(***************************************************************************)
(* State-machine model of the two notebooks of                             *)
(* _posts/scikit/Model-Complexity/model-complexity.ipynb:                  *)
(*   - the complexity/performance sweep (benchmark_influence, the main     *)
(*     loop over configurations, plot_influence), and                      *)
(*   - the out-of-bag error tracker (the OOB error loop and its plot step).*)
(* The library calls (fit, predict, the metric functions, time.time) are   *)
(* external: whether fit or predict raises and how long predict takes are  *)
(* nondeterministic, and every measured value is kept symbolically, with   *)
(* the identity and the fitted state of the estimator it was measured on.  *)
(***************************************************************************)
EXTENDS Integers, Sequences, FiniteSets, TLC

\* ---------------------------------------------------------------- bounds
MaxConfs == 2        \* configurations in the list
MaxVals == 2         \* entries of conf['changing_param_values']
MaxSamples == 2      \* conf['n_samples'] is 0..MaxSamples
MaxTick == 2         \* one predict call takes 1..MaxTick clock ticks
MaxClfs == 2         \* entries of ensemble_clfs
MaxEstimators == 3   \* min_estimators, max_estimators are within 0..MaxEstimators

\* ---------------------------------------------------------------- values
Labels == {"A", "B"}
NoEstimator == [id |-> <<0, 0>>]    \* the local name is not bound yet
NoValue == <<>>

VARIABLES
    script,           \* which notebook runs: "sweep" or "oob"
    pc,               \* the statement the script is at
    error,            \* "none", or the exception that ended the script
    now,              \* time.time()
    rng,              \* draws made so far from numpy's global random stream
    \* ---- sweep notebook
    configurations,   \* the list of configuration records
    configurations0,  \* the list as constructed (history)
    conf_i,           \* index of conf in the main loop, 0 before the loop
    k,                \* entries of changing_param_values consumed by the for loop
    estimator,        \* local estimator of benchmark_influence
    prediction_times, prediction_powers, complexities,   \* locals
    start_time, samples, y_pred,                         \* locals
    predict_ticks,    \* clock ticks spent inside predict for this estimator (history)
    timed,            \* the calls made since start_time was read (history)
    call_log,         \* the calls of the current loop iteration, in order (history)
    returned,         \* the tuple benchmark_influence returned
    model_compexity_influence_plot,
    run, first_run_plot,   \* second execution of the notebook
    \* ---- OOB notebook
    ensemble_clfs, error_rate, min_estimators, max_estimators,
    clf_i,            \* index of (label, clf) in the outer loop, 0 before it
    it,               \* values the range iterator of the inner loop has yielded
    i, oob_error, plot_i, data, fig

sweepVars == <<configurations, configurations0, conf_i, k, estimator,
               prediction_times, prediction_powers, complexities, start_time,
               samples, y_pred, predict_ticks, timed, call_log, returned,
               model_compexity_influence_plot>>
runVars == <<run, first_run_plot>>
oobVars == <<ensemble_clfs, error_rate, min_estimators, max_estimators,
             clf_i, it, i, oob_error, plot_i, data, fig>>
vars == <<script, pc, error, now, rng, sweepVars, runVars, oobVars>>

\* ---------------------------------------------------------------- helpers
\* A value list of the given length: increasing values, as in the notebook.
ValueList(len) == [j \in 1..len |-> j]

\* Variant: d.setdefault(key, value), which keeps the value of a key already set.
DictSetDefault(d, key, value) ==
    [x \in (DOMAIN d) \cup {key} |->
        IF x \in DOMAIN d THEN d[x] ELSE value]

\* d[key] = value on a Python dict: the key is added when absent.
DictSet(d, key, value) ==
    [x \in (DOMAIN d) \cup {key} |-> IF x = key THEN value ELSE d[x]]

EstimatorName(c) ==
    IF c = 1 THEN "SGDClassifier"
    ELSE IF c = 2 THEN "NuSVR" ELSE "GradientBoostingRegressor"

DataName(c) == IF c = 1 THEN "classification" ELSE "regression"

PerformanceLabel(c) == IF c = 1 THEN "Hamming Loss" ELSE "MSE"

ComplexityLabel(c) ==
    IF c = 1 THEN "non_zero coefficients"
    ELSE IF c = 2 THEN "n_support_vectors" ELSE "n_trees"

\* The dataset split generate_data returns: the shuffle takes one draw of the
\* random stream seeded by np.random.seed(0).
generate_data(case, draw) == [case |-> case, shuffle |-> draw]

\* One configuration record of the list `configurations`.
Conf(c, tuned, cp, vals, n) ==
    [estimator |-> EstimatorName(c),
     tuned_params |-> tuned,
     changing_param |-> cp,
     changing_param_values |-> vals,
     complexity_label |-> ComplexityLabel(c),
     prediction_performance_label |-> PerformanceLabel(c),
     data |-> generate_data(DataName(c), IF c = 1 THEN 2 ELSE 1),
     \* regression_data is generated first, classification_data second
     n_samples |-> n]

\* The fixed hyperparameters: the changing parameter "p" is or is not one of
\* them; fixed values are 0, swept values are 1, 2, ...
TunedParams == {[x \in D |-> 0] : D \in {{"q"}, {"p", "q"}}}

ConfLists ==
    UNION {
      { [c \in 1..m |-> Conf(c, tuned[c], "p", ValueList(len[c]), n)] :
          tuned \in [1..m -> TunedParams],
          len \in [1..m -> 0..MaxVals] }
      : m \in 1..MaxConfs, n \in 0..MaxSamples }

\* ------------------------------------------------ sweep notebook: operators
Running == error = "none"

conf == configurations[conf_i]

\* conf['estimator'](**conf['tuned_params']): the keyword arguments are copied
\* into the new estimator.
NewEstimator(c, n, params) ==
    [id |-> <<c, n>>, params |-> params, fits |-> 0, predicts |-> 0,
     hooked |-> FALSE, model |-> NoValue]

\* Variant: the fit seeds itself from the wall clock.
FitDrawFromClock(stream, clock) == clock

\* The draw of the random stream a fit with random_state=None uses: the next
\* one of numpy's global stream, which np.random.seed(0) fixed.
FitDraw(stream, clock) == stream + 1

\* What estimator.fit leaves in the estimator.
FittedModel(est, dataset, draw) ==
    [params |-> est.params, data |-> dataset, draw |-> draw]

\* Variant: the complexity is read before the estimator is fit.
complexity_computer_unfit(est) == [of |-> est.id, model |-> NoValue]

\* conf['complexity_computer'](estimator)
complexity_computer(est) == [of |-> est.id, model |-> est.model]

\* estimator.predict(conf['data']['X_test'])
predict(est, dataset) == [of |-> est.id, model |-> est.model, X_test |-> dataset]

\* conf['prediction_performance_computer'](conf['data']['y_test'], y_pred)
prediction_performance_computer(dataset, pred) ==
    [of |-> pred.of, y_test |-> dataset, y_pred |-> pred.model]

\* Variant: the start time is not subtracted.
ElapsedTimeFromEpoch(clock, start, n, calls, ticks) ==
    [elapsed |-> clock, n |-> n, calls |-> calls, ticks |-> ticks]

\* (time.time() - start_time) / float(conf['n_samples']), kept as the exact
\* fraction elapsed / n; calls and ticks tell what the interval contained.
ElapsedTime(clock, start, n, calls, ticks) ==
    [elapsed |-> clock - start, n |-> n, calls |-> calls, ticks |-> ticks]

\* Variant: the two series are bound to the wrong traces.
plot_influence_swapped(cf, mse_values, times, cplx) ==
    [data |-> << [x |-> cplx, y |-> times, name |-> "prediction error",
                  yaxis |-> "y"],
                 [x |-> cplx, y |-> mse_values, name |-> "latency",
                  yaxis |-> "y2"] >>,
     layout |-> [title |-> cf.estimator,
                 xaxis |-> cf.complexity_label,
                 yaxis |-> cf.prediction_performance_label,
                 yaxis2 |-> "Time (s)"]]

\* plot_influence(conf, mse_values, prediction_times, complexities)
plot_influence(cf, mse_values, times, cplx) ==
    [data |-> << [x |-> cplx, y |-> mse_values, name |-> "prediction error",
                  yaxis |-> "y"],
                 [x |-> cplx, y |-> times, name |-> "latency",
                  yaxis |-> "y2"] >>,
     layout |-> [title |-> cf.estimator,
                 xaxis |-> cf.complexity_label,
                 yaxis |-> cf.prediction_performance_label,
                 yaxis2 |-> "Time (s)"]]

\* ------------------------------------------------ sweep notebook: actions
\* for conf in configurations: ... benchmark_influence(conf)   (binds the locals)
MainLoop ==
    /\ script = "sweep" /\ Running /\ pc = "main"
    /\ IF conf_i < Len(configurations)
       THEN /\ conf_i' = conf_i + 1
            /\ pc' = "for"
            /\ k' = 0
            /\ prediction_times' = <<>>
            /\ prediction_powers' = <<>>
            /\ complexities' = <<>>
            /\ estimator' = NoEstimator
            /\ start_time' = 0
            /\ samples' = 0
            /\ y_pred' = NoValue
            /\ predict_ticks' = 0
            /\ timed' = <<>>
            /\ call_log' = <<>>
       ELSE /\ pc' = "done"
            /\ UNCHANGED <<conf_i, k, prediction_times, prediction_powers,
                           complexities, estimator, start_time, samples,
                           y_pred, predict_ticks, timed, call_log>>
    /\ UNCHANGED <<script, error, now, rng, configurations, configurations0,
                   returned, model_compexity_influence_plot, runVars, oobVars>>

\* Variant: the parameter is set on a copy of conf['tuned_params'].
ForParamValueOnCopy ==
    /\ script = "sweep" /\ Running /\ pc = "for"
    /\ k < Len(conf.changing_param_values)
    /\ LET param_value == conf.changing_param_values[k + 1]
           tuned == DictSet(conf.tuned_params, conf.changing_param, param_value)
       IN /\ configurations' = configurations
          /\ estimator' = NewEstimator(conf_i, k + 1, tuned)
    /\ k' = k + 1
    /\ predict_ticks' = 0
    /\ call_log' = << <<"estimator", <<conf_i, k + 1>>>> >>
    /\ pc' = "fit"
    /\ UNCHANGED <<script, error, now, rng, configurations0, conf_i,
                   prediction_times, prediction_powers, complexities,
                   start_time, samples, y_pred, timed, returned,
                   model_compexity_influence_plot, runVars, oobVars>>

\* for param_value in ...: set the parameter in conf and construct the estimator
ForParamValue ==
    /\ script = "sweep" /\ Running /\ pc = "for"
    /\ k < Len(conf.changing_param_values)
    /\ LET param_value == conf.changing_param_values[k + 1]
           tuned == DictSet(conf.tuned_params, conf.changing_param, param_value)
       IN /\ configurations' =
                 [configurations EXCEPT ![conf_i].tuned_params = tuned]
          /\ estimator' = NewEstimator(conf_i, k + 1, tuned)
    /\ k' = k + 1
    /\ predict_ticks' = 0
    /\ call_log' = << <<"estimator", <<conf_i, k + 1>>>> >>
    /\ pc' = "fit"
    /\ UNCHANGED <<script, error, now, rng, configurations0, conf_i,
                   prediction_times, prediction_powers, complexities,
                   start_time, samples, y_pred, timed, returned,
                   model_compexity_influence_plot, runVars, oobVars>>

\* Variant: the exception is caught and the fit is tried again.
FitRaisesRetried ==
    /\ estimator' = [estimator EXCEPT !.fits = @ + 1]
    /\ error' = error
    /\ call_log' = Append(call_log, <<"fit", estimator.id>>)
    /\ UNCHANGED <<rng, now, timed, pc>>

\* estimator.fit raises: the exception leaves benchmark_influence and the script
FitRaises ==
    /\ estimator' = [estimator EXCEPT !.fits = @ + 1]
    /\ error' = "fit"
    /\ call_log' = Append(call_log, <<"fit", estimator.id>>)
    /\ UNCHANGED <<rng, now, timed, pc>>

\* estimator.fit(X_train, y_train): returns, or raises
estimator_fit ==
    /\ script = "sweep" /\ Running /\ pc = "fit"
    /\ \/ /\ estimator' = [estimator EXCEPT
                 !.fits = @ + 1,
                 !.model = FittedModel(estimator, conf.data, FitDraw(rng, now))]
          /\ rng' = rng + 1
          /\ now' = now + 1
          /\ timed' = Append(timed, <<"fit", estimator.id>>)
          /\ call_log' = Append(call_log, <<"fit", estimator.id>>)
          /\ pc' = "postfit"
          /\ error' = error
       \/ FitRaises
    /\ UNCHANGED <<script, configurations, configurations0, conf_i, k,
                   prediction_times, prediction_powers, complexities,
                   start_time, samples, y_pred, predict_ticks, returned,
                   model_compexity_influence_plot, runVars, oobVars>>

\* Variant: the complexity is computed before the post-fit hook runs.
ComplexityBeforeHook ==
    /\ script = "sweep" /\ Running /\ pc = "postfit"
    /\ estimator' = [estimator EXCEPT !.hooked = TRUE]
    /\ complexities' = Append(complexities, complexity_computer(estimator))
    /\ timed' = Append(Append(timed, <<"complexity_computer", estimator.id>>),
                       <<"postfit_hook", estimator.id>>)
    /\ call_log' = Append(Append(call_log, <<"complexity_computer", estimator.id>>),
                          <<"postfit_hook", estimator.id>>)
    /\ pc' = "timer"
    /\ UNCHANGED <<script, error, now, rng, configurations, configurations0,
                   conf_i, k, prediction_times, prediction_powers, start_time,
                   samples, y_pred, predict_ticks, returned,
                   model_compexity_influence_plot, runVars, oobVars>>

\* conf['postfit_hook'](estimator); the complexity is computed and appended
PostfitComplexity ==
    /\ script = "sweep" /\ Running /\ pc = "postfit"
    /\ estimator' = [estimator EXCEPT !.hooked = TRUE]
    /\ complexities' = Append(complexities, complexity_computer(estimator))
    /\ timed' = Append(Append(timed, <<"postfit_hook", estimator.id>>),
                       <<"complexity_computer", estimator.id>>)
    /\ call_log' = Append(Append(call_log, <<"postfit_hook", estimator.id>>),
                          <<"complexity_computer", estimator.id>>)
    /\ pc' = "timer"
    /\ UNCHANGED <<script, error, now, rng, configurations, configurations0,
                   conf_i, k, prediction_times, prediction_powers, start_time,
                   samples, y_pred, predict_ticks, returned,
                   model_compexity_influence_plot, runVars, oobVars>>

\* start_time = time.time()
StartTimer ==
    /\ script = "sweep" /\ Running /\ pc = "timer"
    /\ start_time' = now
    /\ timed' = <<>>
    /\ call_log' = Append(call_log, <<"time", estimator.id>>)
    /\ samples' = 0
    /\ pc' = "predict"
    /\ UNCHANGED <<script, error, now, rng, configurations, configurations0,
                   conf_i, k, estimator, prediction_times, prediction_powers,
                   complexities, y_pred, predict_ticks, returned,
                   model_compexity_influence_plot, runVars, oobVars>>

\* for _ in range(n_samples): y_pred = estimator.predict(X_test): returns, or raises
estimator_predict ==
    /\ script = "sweep" /\ Running /\ pc = "predict"
    /\ samples < conf.n_samples
    /\ call_log' = Append(call_log, <<"predict", estimator.id>>)
    /\ \/ \E d \in 1..MaxTick :
            /\ y_pred' = predict(estimator, conf.data)
            /\ estimator' = [estimator EXCEPT !.predicts = @ + 1]
            /\ samples' = samples + 1
            /\ now' = now + d
            /\ predict_ticks' = predict_ticks + d
            /\ timed' = Append(timed, <<"predict", estimator.id>>)
            /\ error' = error
       \/ /\ estimator' = [estimator EXCEPT !.predicts = @ + 1]
          /\ error' = "predict"
          /\ UNCHANGED <<y_pred, samples, now, predict_ticks, timed>>
    /\ UNCHANGED <<script, pc, rng, configurations, configurations0, conf_i, k,
                   prediction_times, prediction_powers, complexities,
                   start_time, returned, model_compexity_influence_plot,
                   runVars, oobVars>>

\* Variant: the elapsed time is divided by max(n_samples, 1).
AppendElapsedGuarded ==
    /\ script = "sweep" /\ Running /\ pc = "predict"
    /\ samples >= conf.n_samples
    /\ call_log' = Append(call_log, <<"time", estimator.id>>)
    /\ prediction_times' = Append(prediction_times,
          ElapsedTime(now, start_time,
                      IF conf.n_samples = 0 THEN 1 ELSE conf.n_samples,
                      timed, predict_ticks))
    /\ pc' = "score"
    /\ error' = error
    /\ UNCHANGED <<script, now, rng, configurations, configurations0, conf_i,
                   k, estimator, prediction_powers, complexities, start_time,
                   samples, y_pred, predict_ticks, timed, returned,
                   model_compexity_influence_plot, runVars, oobVars>>

\* elapsed_time = (time.time() - start_time) / float(n_samples), appended
AppendElapsed ==
    /\ script = "sweep" /\ Running /\ pc = "predict"
    /\ samples >= conf.n_samples
    /\ call_log' = Append(call_log, <<"time", estimator.id>>)
    /\ IF conf.n_samples = 0
       THEN /\ error' = "ZeroDivisionError"
            /\ UNCHANGED <<prediction_times, pc>>
       ELSE /\ prediction_times' = Append(prediction_times,
                  ElapsedTime(now, start_time, conf.n_samples, timed,
                              predict_ticks))
            /\ pc' = "score"
            /\ error' = error
    /\ UNCHANGED <<script, now, rng, configurations, configurations0, conf_i,
                   k, estimator, prediction_powers, complexities, start_time,
                   samples, y_pred, predict_ticks, timed, returned,
                   model_compexity_influence_plot, runVars, oobVars>>

\* pred_score = prediction_performance_computer(y_test, y_pred), appended
AppendScore ==
    /\ script = "sweep" /\ Running /\ pc = "score"
    /\ IF y_pred = NoValue
       THEN /\ error' = "UnboundLocalError"
            /\ UNCHANGED <<prediction_powers, timed, call_log, pc>>
       ELSE /\ prediction_powers' = Append(prediction_powers,
                  prediction_performance_computer(conf.data, y_pred))
            /\ timed' = Append(timed,
                  <<"prediction_performance_computer", y_pred.of>>)
            /\ call_log' = Append(call_log,
                  <<"prediction_performance_computer", y_pred.of>>)
            /\ pc' = "for"
            /\ error' = error
    /\ UNCHANGED <<script, now, rng, configurations, configurations0, conf_i,
                   k, estimator, prediction_times, complexities, start_time,
                   samples, y_pred, predict_ticks, returned,
                   model_compexity_influence_plot, runVars, oobVars>>

\* Variant: the return statement is indented into the for loop.
ReturnInsideLoop ==
    /\ script = "sweep" /\ Running /\ pc = "for"
    /\ k >= 1 \/ k >= Len(conf.changing_param_values)
    /\ returned' = <<prediction_powers, prediction_times, complexities>>
    /\ pc' = "plot"
    /\ UNCHANGED <<script, error, now, rng, configurations, configurations0,
                   conf_i, k, estimator, prediction_times, prediction_powers,
                   complexities, start_time, samples, y_pred, predict_ticks,
                   timed, call_log, model_compexity_influence_plot, runVars,
                   oobVars>>

\* return prediction_powers, prediction_times, complexities
Return ==
    /\ script = "sweep" /\ Running /\ pc = "for"
    /\ k >= Len(conf.changing_param_values)
    /\ returned' = <<prediction_powers, prediction_times, complexities>>
    /\ pc' = "plot"
    /\ UNCHANGED <<script, error, now, rng, configurations, configurations0,
                   conf_i, k, estimator, prediction_times, prediction_powers,
                   complexities, start_time, samples, y_pred, predict_ticks,
                   timed, call_log, model_compexity_influence_plot, runVars,
                   oobVars>>

\* Variant: plot_influence reverses the complexities it was passed, in place.
PlotInfluenceInPlace ==
    /\ script = "sweep" /\ Running /\ pc = "plot"
    /\ model_compexity_influence_plot' =
           Append(model_compexity_influence_plot,
                  plot_influence(conf, returned[1], returned[2], returned[3]))
    /\ complexities' = [j \in 1..Len(complexities) |->
                            complexities[Len(complexities) + 1 - j]]
    /\ returned' = NoValue
    /\ pc' = "main"
    /\ UNCHANGED <<script, error, now, rng, configurations, configurations0,
                   conf_i, k, estimator, prediction_times, prediction_powers,
                   start_time, samples, y_pred, predict_ticks,
                   timed, call_log, runVars, oobVars>>

\* the caller unpacks the tuple, calls plot_influence and appends the figure
PlotInfluence ==
    /\ script = "sweep" /\ Running /\ pc = "plot"
    /\ LET prediction_performances == returned[1]
           times == returned[2]
           cplx == returned[3]
       IN model_compexity_influence_plot' =
              Append(model_compexity_influence_plot,
                     plot_influence(conf, prediction_performances, times, cplx))
    /\ returned' = NoValue
    /\ pc' = "main"
    /\ UNCHANGED <<script, error, now, rng, configurations, configurations0,
                   conf_i, k, estimator, prediction_times, prediction_powers,
                   complexities, start_time, samples, y_pred, predict_ticks,
                   timed, call_log, runVars, oobVars>>

\* ------------------------------------------------ OOB notebook: operators
\* RandomForestClassifier(warm_start=True, oob_score=True, random_state=...)
NewClf(c) == [id |-> c, n_estimators |-> 0, n_trees |-> 0, fits |-> 0,
              oob_score_ |-> NoValue]

\* The out-of-bag score of classifier c fit with n trees (random_state is fixed).
OobScore(c, n) == [clf |-> c, trees |-> n]

\* 1 - clf.oob_score_
OobError(score) == [one_minus |-> score]

\* The keys of OrderedDict((label, []) for label, _ in ensemble_clfs): each
\* label once, in the order of its first occurrence.
RECURSIVE Keys(_)
Keys(clfs) ==
    IF clfs = <<>> THEN <<>>
    ELSE LET front == Keys(SubSeq(clfs, 1, Len(clfs) - 1))
             label == clfs[Len(clfs)].label
         IN IF \E j \in 1..Len(front) : front[j] = label
            THEN front ELSE Append(front, label)

\* range(start, stop), as the sequence of the values it yields
range(start, stop) == [j \in 1..(stop - start) |-> start + j - 1]

\* Variant: the score is recorded instead of the error.
ErrorPairNoComplement(size, score) == <<size, score>>

\* (i, oob_error) with oob_error = 1 - clf.oob_score_
ErrorPair(size, score) == <<size, OobError(score)>>

\* Variant: the errors are taken in the reverse order of the sizes.
UnzipMisaligned(pairs) ==
    <<[j \in 1..Len(pairs) |-> pairs[j][1]],
      [j \in 1..Len(pairs) |-> pairs[Len(pairs) + 1 - j][2]]>>

\* zip(*clf_err): the first and the second components of the pairs
Unzip(pairs) ==
    <<[j \in 1..Len(pairs) |-> pairs[j][1]], [j \in 1..Len(pairs) |-> pairs[j][2]]>>

ClfLists ==
    UNION { { [c \in 1..m |-> [label |-> labels[c], clf |-> NewClf(c)]] :
                labels \in [1..m -> Labels] } : m \in 1..MaxClfs }

label == ensemble_clfs[clf_i].label
clf == ensemble_clfs[clf_i].clf

\* Variant: the range stops before max_estimators.
SizesExclusive == range(min_estimators, max_estimators)

\* Variant: the range ignores min_estimators.
SizesFromOne == range(1, max_estimators + 1)

\* range(min_estimators, max_estimators + 1)
Sizes == range(min_estimators, max_estimators + 1)

\* ------------------------------------------------ OOB notebook: actions
\* for label, clf in ensemble_clfs:
NextClf ==
    /\ script = "oob" /\ Running /\ pc = "for_clf"
    /\ IF clf_i < Len(ensemble_clfs)
       THEN /\ clf_i' = clf_i + 1
            /\ it' = 0
            /\ pc' = "for_i"
            /\ UNCHANGED <<data, plot_i>>
       ELSE /\ data' = <<>>
            /\ plot_i' = 0
            /\ pc' = "for_label"
            /\ UNCHANGED <<clf_i, it>>
    /\ UNCHANGED <<script, error, now, rng, sweepVars, runVars, ensemble_clfs,
                   error_rate, min_estimators, max_estimators, i, oob_error,
                   fig>>

\* for i in range(min_estimators, max_estimators + 1): clf.set_params(n_estimators=i)
NextSize ==
    /\ script = "oob" /\ Running /\ pc = "for_i"
    /\ IF it < Len(Sizes)
       THEN /\ i' = Sizes[it + 1]
            /\ it' = it + 1
            /\ ensemble_clfs' =
                   [ensemble_clfs EXCEPT ![clf_i].clf.n_estimators = Sizes[it + 1]]
            /\ pc' = "clf_fit"
       ELSE /\ pc' = "for_clf"
            /\ UNCHANGED <<i, it, ensemble_clfs>>
    /\ UNCHANGED <<script, error, now, rng, sweepVars, runVars, error_rate,
                   min_estimators, max_estimators, clf_i, oob_error, plot_i,
                   data, fig>>

\* clf.fit(X, y): grows the warm-started ensemble to n_estimators trees, or raises
clf_fit ==
    /\ script = "oob" /\ Running /\ pc = "clf_fit"
    /\ \/ /\ ensemble_clfs' = [ensemble_clfs EXCEPT
                 ![clf_i].clf.fits = @ + 1,
                 ![clf_i].clf.n_trees = clf.n_estimators,
                 ![clf_i].clf.oob_score_ = OobScore(clf.id, clf.n_estimators)]
          /\ pc' = "record"
          /\ error' = error
       \/ /\ ensemble_clfs' = [ensemble_clfs EXCEPT ![clf_i].clf.fits = @ + 1]
          /\ error' = "fit"
          /\ pc' = pc
    /\ UNCHANGED <<script, now, rng, sweepVars, runVars, error_rate,
                   min_estimators, max_estimators, clf_i, it, i, oob_error,
                   plot_i, data, fig>>

\* oob_error = 1 - clf.oob_score_; error_rate[label].append((i, oob_error))
RecordError ==
    /\ script = "oob" /\ Running /\ pc = "record"
    /\ oob_error' = OobError(clf.oob_score_)
    /\ error_rate' = [error_rate EXCEPT
           !.lists[label] = Append(@, ErrorPair(i, clf.oob_score_))]
    /\ pc' = "for_i"
    /\ UNCHANGED <<script, error, now, rng, sweepVars, runVars, ensemble_clfs,
                   min_estimators, max_estimators, clf_i, it, i, plot_i, data,
                   fig>>

\* Variant: a label with an empty list gets a trace with empty sequences.
PlotTraceOfEmptyList ==
    /\ script = "oob" /\ Running /\ pc = "for_label"
    /\ plot_i < Len(error_rate.keys)
    /\ LET name == error_rate.keys[plot_i + 1]
           clf_err == error_rate.lists[name]
       IN /\ data' = Append(data,
                 [x |-> Unzip(clf_err)[1], y |-> Unzip(clf_err)[2],
                  name |-> name, mode |-> "lines"])
          /\ plot_i' = plot_i + 1
          /\ error' = error
    /\ UNCHANGED <<script, pc, now, rng, sweepVars, runVars, ensemble_clfs,
                   error_rate, min_estimators, max_estimators, clf_i, it, i,
                   oob_error, fig>>

\* for label, clf_err in error_rate.items(): xs, ys = zip(*clf_err); the trace
PlotTrace ==
    /\ script = "oob" /\ Running /\ pc = "for_label"
    /\ plot_i < Len(error_rate.keys)
    /\ LET name == error_rate.keys[plot_i + 1]
           clf_err == error_rate.lists[name]
       IN IF clf_err = <<>>
          THEN /\ error' = "ValueError"
               /\ UNCHANGED <<data, plot_i>>
          ELSE /\ data' = Append(data,
                     [x |-> Unzip(clf_err)[1], y |-> Unzip(clf_err)[2],
                      name |-> name, mode |-> "lines"])
               /\ plot_i' = plot_i + 1
               /\ error' = error
    /\ UNCHANGED <<script, pc, now, rng, sweepVars, runVars, ensemble_clfs,
                   error_rate, min_estimators, max_estimators, clf_i, it, i,
                   oob_error, fig>>

\* layout = go.Layout(...); fig = go.Figure(data=data, layout=layout)
BuildFigure ==
    /\ script = "oob" /\ Running /\ pc = "for_label"
    /\ plot_i >= Len(error_rate.keys)
    /\ fig' = [data |-> data,
               layout |-> [xaxis |-> "n_estimators", yaxis |-> "OOB error rate",
                           hovermode |-> "closest"]]
    /\ pc' = "done"
    /\ UNCHANGED <<script, error, now, rng, sweepVars, runVars, ensemble_clfs,
                   error_rate, min_estimators, max_estimators, clf_i, it, i,
                   oob_error, plot_i, data>>

\* ---------------------------------------------------------------- system
\* The sweep notebook before its main loop, in its first execution.
SweepStart(confs) ==
    /\ error = "none"
    /\ now = 0
    /\ rng = 2    \* np.random.seed(0), then one shuffle per generate_data call
    /\ configurations = confs
    /\ conf_i = 0
    /\ k = 0
    /\ estimator = NoEstimator
    /\ prediction_times = <<>>
    /\ prediction_powers = <<>>
    /\ complexities = <<>>
    /\ start_time = 0
    /\ samples = 0
    /\ y_pred = NoValue
    /\ predict_ticks = 0
    /\ timed = <<>>
    /\ call_log = <<>>
    /\ returned = NoValue
    /\ model_compexity_influence_plot = <<>>

InitSweep ==
    /\ script = "sweep"
    /\ pc = "main"
    /\ \E confs \in ConfLists :
         /\ SweepStart(confs)
         /\ configurations0 = confs
    /\ run = 1
    /\ first_run_plot = <<>>
    /\ ensemble_clfs = <<>>
    /\ error_rate = [keys |-> <<>>, lists |-> <<>>]
    /\ min_estimators = 0
    /\ max_estimators = 0
    /\ clf_i = 0
    /\ it = 0
    /\ i = 0
    /\ oob_error = NoValue
    /\ plot_i = 0
    /\ data = <<>>
    /\ fig = NoValue

InitOob ==
    /\ script = "oob"
    /\ SweepStart(<<>>)
    /\ pc = "for_clf"
    /\ configurations0 = <<>>
    /\ run = 1
    /\ first_run_plot = <<>>
    /\ ensemble_clfs \in ClfLists
    /\ error_rate = [keys |-> Keys(ensemble_clfs),
                     lists |-> [l \in {ensemble_clfs[c].label :
                                         c \in 1..Len(ensemble_clfs)} |-> <<>>]]
    /\ min_estimators \in 1..MaxEstimators
    /\ max_estimators \in 0..MaxEstimators
    /\ clf_i = 0
    /\ it = 0
    /\ i = 0
    /\ oob_error = NoValue
    /\ plot_i = 0
    /\ data = <<>>
    /\ fig = NoValue

Init == InitSweep \/ InitOob

Sweep ==
    \/ MainLoop \/ ForParamValue \/ estimator_fit \/ PostfitComplexity
    \/ StartTimer \/ estimator_predict \/ AppendElapsed \/ AppendScore
    \/ Return \/ PlotInfluence

Oob == NextClf \/ NextSize \/ clf_fit \/ RecordError \/ PlotTrace \/ BuildFigure

Next == Sweep \/ Oob

Spec == Init /\ [][Next]_vars

\* The sweep notebook is executed a second time from a fresh interpreter: the
\* seed, the data and the configurations are built again; the figures of the
\* first execution are kept for comparison.
Rerun ==
    /\ script = "sweep" /\ Running /\ pc = "done" /\ run = 1
    /\ run' = 2
    /\ first_run_plot' = model_compexity_influence_plot
    /\ pc' = "main"
    /\ now' = 0
    /\ rng' = 2
    /\ configurations' = configurations0
    /\ conf_i' = 0
    /\ k' = 0
    /\ estimator' = NoEstimator
    /\ prediction_times' = <<>>
    /\ prediction_powers' = <<>>
    /\ complexities' = <<>>
    /\ start_time' = 0
    /\ samples' = 0
    /\ y_pred' = NoValue
    /\ predict_ticks' = 0
    /\ timed' = <<>>
    /\ call_log' = <<>>
    /\ returned' = NoValue
    /\ model_compexity_influence_plot' = <<>>
    /\ UNCHANGED <<script, error, configurations0, oobVars>>

\* The interpreter always executes the next statement of a script that has
\* not ended.
SpecFair == Init /\ [][Next]_vars /\ WF_vars(Next)

NextTwoRuns == Next \/ Rerun

SpecTwoRuns == Init /\ [][NextTwoRuns]_vars

\* ================================================================ claims
\* The parameter sweep is inside benchmark_influence for configuration conf_i.
InSweep == script = "sweep" /\ conf_i >= 1 /\ pc \notin {"main", "done"}

values == conf.changing_param_values

\* C1: when benchmark_influence returns, each of the three result sequences
\* has length len(conf['changing_param_values']); after k loop iterations all
\* three have length k; an empty value list yields three empty sequences and
\* no estimator was constructed or fit.
C1_ResultLengths ==
    InSweep =>
      /\ pc = "for" =>
            /\ Len(prediction_powers) = k
            /\ Len(prediction_times) = k
            /\ Len(complexities) = k
      /\ pc = "plot" =>
            /\ Len(returned) = 3
            /\ \A j \in 1..3 : Len(returned[j]) = Len(values)
            /\ values = <<>> =>
                  /\ returned = << <<>>, <<>>, <<>> >>
                  /\ estimator = NoEstimator

C1_Witness ==
    /\ InSweep /\ pc = "plot"
    /\ Len(values) >= 2
    /\ Len(returned[1]) = Len(values)

\* C2: the three sequences are aligned: the j-th complexity, latency and error
\* were all measured on the estimator constructed and fit for the j-th entry
\* of changing_param_values.
C2_Aligned ==
    InSweep =>
      /\ \A j \in 1..Len(complexities) :
            /\ complexities[j].of = <<conf_i, j>>
            /\ complexities[j].model # NoValue
            /\ complexities[j].model.params[conf.changing_param] = values[j]
      /\ \A j \in 1..Len(prediction_times) :
            /\ prediction_times[j].calls # <<>>
            /\ \A n \in 1..Len(prediction_times[j].calls) :
                  prediction_times[j].calls[n][2] = <<conf_i, j>>
      /\ \A j \in 1..Len(prediction_powers) :
            /\ prediction_powers[j].of = <<conf_i, j>>
            /\ prediction_powers[j].y_pred = complexities[j].model
      /\ pc = "plot" =>
            returned = <<prediction_powers, prediction_times, complexities>>

C2_Witness ==
    /\ InSweep /\ pc = "plot"
    /\ Len(returned[1]) >= 2
    /\ returned[3][2].of = <<conf_i, 2>>
    /\ returned[1][2].of = <<conf_i, 2>>

\* C3: when changing_param is not one of the fixed hyperparameter names, the
\* estimator of the iteration for value v is constructed with exactly the
\* fixed hyperparameters as configured plus changing_param = v.
C3_EstimatorParams ==
    (InSweep /\ estimator # NoEstimator) =>
      LET fixed == configurations0[conf_i].tuned_params
          cp == configurations0[conf_i].changing_param
      IN cp \notin DOMAIN fixed =>
            /\ estimator.id = <<conf_i, k>>
            /\ DOMAIN estimator.params = (DOMAIN fixed) \cup {cp}
            /\ estimator.params[cp] = configurations0[conf_i].changing_param_values[k]
            /\ \A x \in DOMAIN fixed : estimator.params[x] = fixed[x]

C3_Witness ==
    /\ InSweep /\ estimator # NoEstimator
    /\ "p" \notin DOMAIN configurations0[conf_i].tuned_params
    /\ k = 2
    /\ estimator.params["p"] = 2
    /\ estimator.fits = 1

\* C4: for each value the estimator is fit exactly once, predict is called
\* exactly n_samples times, and the latency recorded is the time elapsed in
\* exactly those predict calls divided by n_samples.
C4_FitOncePredictN ==
    InSweep =>
      /\ pc \in {"postfit", "timer", "predict", "score"} => estimator.fits = 1
      /\ (pc = "for" /\ k >= 1) =>
            /\ estimator.fits = 1
            /\ estimator.predicts = conf.n_samples
      /\ \A j \in 1..Len(prediction_times) :
            LET t == prediction_times[j]
            IN /\ t.n = conf.n_samples
               /\ t.calls = [n \in 1..conf.n_samples |-> <<"predict", <<conf_i, j>>>>]
               /\ t.elapsed = t.ticks

C4_Witness ==
    /\ InSweep /\ pc = "for" /\ k = 2
    /\ conf.n_samples = 2
    /\ prediction_times[2].elapsed = 3
    /\ Len(prediction_times[2].calls) = 2

\* C5: benchmark_influence leaves every field of conf, the hyperparameter
\* dictionary conf['tuned_params'] included, as it was before the call.
C5_ConfImmutable ==
    script = "sweep" => configurations = configurations0

\* C6: both loops are fail-fast: when fit or predict raises, the error ends the
\* script, the failing call is not retried, nothing later is processed, and
\* benchmark_influence returns nothing for the failing configuration.
C6_NoRetry ==
    /\ (script = "sweep" /\ estimator # NoEstimator) =>
          /\ estimator.fits <= 1
          /\ estimator.predicts <= conf.n_samples
    /\ script = "oob" =>
          \A c \in 1..Len(ensemble_clfs) :
             ensemble_clfs[c].clf.fits =
                IF c < clf_i THEN Len(Sizes)
                ELSE IF c > clf_i THEN 0
                ELSE IF pc = "for_i" \/ error = "fit" THEN it
                ELSE IF pc = "clf_fit" THEN it - 1
                ELSE it
    /\ (script = "sweep" /\ error \in {"fit", "predict"}) =>
          /\ returned = NoValue
          /\ Len(model_compexity_influence_plot) = conf_i - 1
          /\ Len(prediction_powers) = k - 1
    /\ (script = "oob" /\ error = "fit") =>
          /\ fig = NoValue
          /\ data = <<>>
          /\ \A j \in 1..Len(error_rate.lists[label]) :
                error_rate.lists[label][j] # ErrorPair(i, OobScore(clf_i, i))

C6_FailFast == []C6_NoRetry /\ [][error # "none" => UNCHANGED vars]_vars

C6_Witness ==
    /\ script = "sweep" /\ error = "fit"
    /\ conf_i = 1 /\ Len(configurations) = 2
    /\ k = 1 /\ Len(values) = 2
    /\ estimator.fits = 1

DistinctLabels ==
    \A a, b \in 1..Len(ensemble_clfs) :
       a # b => ensemble_clfs[a].label # ensemble_clfs[b].label

OobLoopDone == script = "oob" /\ pc \in {"for_label", "done"}

\* C7: after the OOB loop completes with min_estimators <= max_estimators and
\* pairwise distinct labels, every list of error_rate has length
\* max_estimators - min_estimators + 1.
C7_OobLength ==
    (OobLoopDone /\ min_estimators <= max_estimators /\ DistinctLabels) =>
       \A l \in DOMAIN error_rate.lists :
          Len(error_rate.lists[l]) = max_estimators - min_estimators + 1

C7_Witness ==
    /\ OobLoopDone /\ DistinctLabels
    /\ Len(ensemble_clfs) = 2
    /\ max_estimators - min_estimators = 2
    /\ Len(error_rate.lists["A"]) = 3
    /\ Len(error_rate.lists["B"]) = 3

\* C8 as stated: at every point of the OOB loop the sizes recorded in each
\* label's list start at min_estimators and grow by exactly one, the ensemble
\* of the classifier has the recorded size, and on completion the last
\* recorded size is max_estimators.
C8_SizesIncreasing ==
    script = "oob" =>
      /\ \A l \in DOMAIN error_rate.lists :
            LET L == error_rate.lists[l]
            IN /\ L # <<>> => L[1][1] = min_estimators
               /\ \A j \in 2..Len(L) : L[j][1] = L[j - 1][1] + 1
               /\ (OobLoopDone /\ L # <<>>) => L[Len(L)][1] = max_estimators
      /\ (pc = "record" /\ Running) => (clf.n_trees = i /\ clf.fits = it)

\* C8 amended: the same, for pairwise distinct labels.
C8_SizesIncreasingDistinct == DistinctLabels => C8_SizesIncreasing

C8_Witness ==
    /\ OobLoopDone /\ DistinctLabels
    /\ Len(ensemble_clfs) = 2
    /\ min_estimators = 2 /\ max_estimators = 3
    /\ error_rate.lists["B"][1][1] = 2
    /\ error_rate.lists["B"][2][1] = 3

\* C9: every pair in error_rate[label] is (i, 1 - oob_score_) with oob_score_
\* the score of a classifier carrying that label, taken from its fit at
\* n_estimators = i.
C9_PairProvenance ==
    script = "oob" =>
      /\ \A l \in DOMAIN error_rate.lists :
            \A j \in 1..Len(error_rate.lists[l]) :
               LET pair == error_rate.lists[l][j]
               IN \E c \in 1..Len(ensemble_clfs) :
                     /\ ensemble_clfs[c].label = l
                     /\ c <= clf_i
                     /\ pair[2] = [one_minus |-> [clf |-> c, trees |-> pair[1]]]
      /\ (pc = "record" /\ Running) =>
            /\ clf.n_estimators = i
            /\ clf.oob_score_ = [clf |-> clf_i, trees |-> i]
      /\ (pc = "for_i" /\ it >= 1) =>
            LET L == error_rate.lists[label]
            IN /\ L # <<>>
               /\ L[Len(L)] = <<i, [one_minus |-> [clf |-> clf_i, trees |-> i]]>>

C9_Witness ==
    /\ OobLoopDone
    /\ Len(ensemble_clfs) = 2
    /\ ensemble_clfs[1].label = "B" /\ ensemble_clfs[2].label = "A"
    /\ Len(error_rate.lists["A"]) = 2
    /\ error_rate.lists["A"][2] =
          <<max_estimators, [one_minus |-> [clf |-> 2, trees |-> max_estimators]]>>

\* C10: two executions of the sweep notebook with the same seed and inputs
\* produce the same complexity sequence for every configuration; the latency
\* sequences may differ.
C10_SameComplexities ==
    (script = "sweep" /\ run = 2 /\ pc = "done") =>
       /\ Len(model_compexity_influence_plot) = Len(first_run_plot)
       /\ \A c \in 1..Len(first_run_plot) :
             model_compexity_influence_plot[c].data[1].x =
                first_run_plot[c].data[1].x

C10_Witness ==
    /\ script = "sweep" /\ run = 2 /\ pc = "done"
    /\ Len(first_run_plot) = 2
    /\ Len(first_run_plot[2].data[1].x) = 2
    /\ model_compexity_influence_plot[2].data[2].y # first_run_plot[2].data[2].y
    /\ model_compexity_influence_plot[2].data[1].x = first_run_plot[2].data[1].x

\* ---------------------------------------------------------------- C11
\* The fit calls made on the classifiers that carry label l, among the first n.
RECURSIVE FitsOfLabel(_, _)
FitsOfLabel(l, n) ==
    IF n = 0 THEN 0
    ELSE FitsOfLabel(l, n - 1)
         + (IF ensemble_clfs[n].label = l THEN ensemble_clfs[n].clf.fits ELSE 0)

ExternalCallRaised == error \in {"fit", "predict"}

\* What the scripts have done when they are through their plotting step.
PlottingStepReached ==
    /\ (script = "sweep" /\ pc = "done") =>
          /\ Len(model_compexity_influence_plot) = Len(configurations0)
          /\ \A c \in 1..Len(configurations0) :
                LET x == model_compexity_influence_plot[c].data[1].x
                IN /\ Len(x) = Len(configurations0[c].changing_param_values)
                   /\ \A j \in 1..Len(x) : x[j].of = <<c, j>>
    /\ (script = "oob" /\ pc = "done") =>
          /\ fig # NoValue
          /\ \A l \in DOMAIN error_rate.lists :
                FitsOfLabel(l, Len(ensemble_clfs)) =
                   max_estimators - min_estimators + 1

\* C11 as stated: no script stops before its plotting step unless an external
\* fit or predict call raised, and through the plotting step the sweep has
\* made len(changing_param_values) iterations for each configuration and the
\* OOB tracker max_estimators - min_estimators + 1 fits for each label.
C11_PlotUnlessExternalRaise ==
    /\ error # "none" => ExternalCallRaised
    /\ PlottingStepReached

\* The inputs for which the scripts themselves do not fail: a sweep with a
\* non-empty value list averages over at least one predict call, the range of
\* ensemble sizes is not empty, and no two classifiers share a label.
InputsInRange ==
    /\ script = "sweep" =>
          \A c \in 1..Len(configurations0) :
             \/ configurations0[c].n_samples >= 1
             \/ configurations0[c].changing_param_values = <<>>
    /\ script = "oob" => (min_estimators <= max_estimators /\ DistinctLabels)

\* C11 amended: for inputs in range, each script ends in its plotting step
\* unless an external fit or predict call raises, with the stated numbers of
\* iterations and fits.
C11_TerminatesInPlot ==
    /\ [](InputsInRange => C11_PlotUnlessExternalRaise)
    /\ <>(ExternalCallRaised \/ ~InputsInRange \/ pc = "done")

C11_Witness ==
    /\ script = "oob" /\ pc = "done" /\ InputsInRange
    /\ Len(ensemble_clfs) = 2
    /\ max_estimators - min_estimators = 1
    /\ ensemble_clfs[1].clf.fits = 2 /\ ensemble_clfs[2].clf.fits = 2
    /\ Len(fig.data) = 2

IterationCalls(id, n) ==
    << <<"estimator", id>>, <<"fit", id>>, <<"postfit_hook", id>>,
       <<"complexity_computer", id>>, <<"time", id>> >>
    \o [j \in 1..n |-> <<"predict", id>>]
    \o << <<"time", id>>, <<"prediction_performance_computer", id>> >>

CallsInOrder ==
    (InSweep /\ k >= 1) =>
       LET E == IterationCalls(<<conf_i, k>>, conf.n_samples)
       IN /\ Len(call_log) <= Len(E)
          /\ \A j \in 1..Len(call_log) : call_log[j] = E[j]
          /\ pc \in {"for", "plot"} => call_log = E
          /\ Len(prediction_times) = k =>
                prediction_times[k].calls =
                   SubSeq(call_log, 6, 5 + conf.n_samples)

\* C13: in each sweep iteration the calls are, in this order, the estimator
\* construction, fit, postfit_hook, complexity_computer, the n_samples predict
\* calls and prediction_performance_computer; only the predict calls lie
\* between the two clock reads; and the calls for the next value (or the next
\* configuration) start only after all calls for the current value are made.
C13_CallOrder ==
    /\ []CallsInOrder
    /\ [][(script = "sweep" /\ k' # k /\ k >= 1) =>
             call_log = IterationCalls(<<conf_i, k>>, conf.n_samples)]_vars

C13_Witness ==
    /\ InSweep /\ pc = "for" /\ k = 2
    /\ conf.n_samples = 2
    /\ Len(call_log) = 9
    /\ call_log[6] = <<"predict", <<conf_i, 2>>>>
    /\ call_log[9] = <<"prediction_performance_computer", <<conf_i, 2>>>>

\* ---------------------------------------------------------------- C14
MainLoopDone == script = "sweep" /\ pc = "done" /\ Running

\* The figure carries the series of the c-th sweep in their roles.
FigureOfSweep(figure, c) ==
    LET cf == configurations[c]
        n == Len(cf.changing_param_values)
        p1 == figure.data[1]
        p2 == figure.data[2]
    IN /\ Len(figure.data) = 2
       /\ Len(p1.x) = n /\ Len(p1.y) = n /\ Len(p2.y) = n
       /\ p2.x = p1.x
       /\ \A j \in 1..n :
             /\ DOMAIN p1.x[j] = {"of", "model"}
             /\ p1.x[j].of = <<c, j>>
             /\ DOMAIN p1.y[j] = {"of", "y_test", "y_pred"}
             /\ p1.y[j].of = <<c, j>>
             /\ DOMAIN p2.y[j] = {"elapsed", "n", "calls", "ticks"}
             /\ p2.y[j].calls = [s \in 1..cf.n_samples |-> <<"predict", <<c, j>>>>]
       /\ p1.name = "prediction error" /\ p1.yaxis = "y"
       /\ p2.name = "latency" /\ p2.yaxis = "y2"
       /\ figure.layout.yaxis = cf.prediction_performance_label

\* C14: once the main loop has completed, model_compexity_influence_plot holds
\* exactly one figure per configuration, in configuration order, and the k-th
\* figure carries the k-th sweep's series in their roles: both traces have the
\* complexities as x, the 'prediction error' trace has the errors as y on the
\* primary axis titled with prediction_performance_label, and the 'latency'
\* trace has the latencies as y on the secondary axis.
C14_FiguresMatchSweeps ==
    MainLoopDone =>
       /\ Len(model_compexity_influence_plot) = Len(configurations)
       /\ \A c \in 1..Len(configurations) :
             FigureOfSweep(model_compexity_influence_plot[c], c)

C14_Witness ==
    /\ MainLoopDone
    /\ Len(configurations) = 2
    /\ Len(model_compexity_influence_plot) = 2
    /\ Len(model_compexity_influence_plot[1].data[1].x) = 2
    /\ Len(model_compexity_influence_plot[2].data[2].y) = 1
    /\ model_compexity_influence_plot[2].data[2].y[1].n = 2

\* ---------------------------------------------------------------- C15
\* The traces built so far are those of the first configurations, each named
\* by its label and carrying that label's recorded pairs position by position.
TracesOfClfs(traces) ==
    \A c \in 1..Len(traces) :
       /\ c <= Len(ensemble_clfs)
       /\ LET t == traces[c]
              pairs == error_rate.lists[ensemble_clfs[c].label]
          IN /\ t.name = ensemble_clfs[c].label
             /\ Len(t.x) = Len(pairs) /\ Len(t.y) = Len(pairs)
             /\ \A j \in 1..Len(pairs) : <<t.x[j], t.y[j]>> = pairs[j]

OnePerClf ==
    /\ OobLoopDone => TracesOfClfs(data)
    /\ (script = "oob" /\ pc = "done") =>
          /\ fig.data = data
          /\ Len(fig.data) = Len(ensemble_clfs)

Started(c) ==
    IF c < conf_i THEN Len(configurations[c].changing_param_values)
    ELSE IF c = conf_i THEN k ELSE 0

\* C16: once benchmark_influence has started an iteration for a configuration,
\* its tuned_params[changing_param] holds the last value started (the final
\* value after a return, the failing value after a failure) and every other
\* entry of tuned_params is as configured; this stays so after the call.
C16_LastValueStaysInConf ==
    script = "sweep" =>
       \A c \in 1..Len(configurations) :
          Started(c) >= 1 =>
             LET cf == configurations[c]
                 cp == cf.changing_param
                 fixed == configurations0[c].tuned_params
             IN /\ DOMAIN cf.tuned_params = (DOMAIN fixed) \cup {cp}
                /\ cf.tuned_params[cp] = cf.changing_param_values[Started(c)]
                /\ \A x \in (DOMAIN fixed) \ {cp} : cf.tuned_params[x] = fixed[x]

C16_Witness ==
    /\ script = "sweep" /\ pc = "done" /\ Running
    /\ Len(configurations) = 2
    /\ Len(configurations[1].changing_param_values) = 2
    /\ Len(configurations[2].changing_param_values) = 1
    /\ "p" \notin DOMAIN configurations0[1].tuned_params
    /\ configurations[1].tuned_params["p"] = 2
    /\ "p" \in DOMAIN configurations0[2].tuned_params
    /\ configurations[2].tuned_params["p"] = 1
    /\ configurations[2].tuned_params["q"] = 0

\* ---------------------------------------------------------------- C17
\* benchmark_influence is running on a configuration with n_samples = 0 and a
\* non-empty value list.
ZeroSamples == InSweep /\ conf.n_samples = 0 /\ values # <<>>

\* It has not returned, is in no later than the first iteration, has made no
\* predict call and has recorded no latency and no error.
NothingMeasured ==
    /\ pc # "plot" /\ returned = NoValue
    /\ k <= 1
    /\ pc = "for" => k = 0
    /\ estimator # NoEstimator => estimator.predicts = 0
    /\ prediction_times = <<>> /\ prediction_powers = <<>>

\* The failure is the division by zero of the first iteration, after the fit
\* and the complexity.
FailedAveraging ==
    /\ error = "ZeroDivisionError"
    /\ k = 1 /\ pc = "predict"
    /\ estimator.fits = 1 /\ estimator.model # NoValue
    /\ Len(complexities) = 1
    /\ complexities[1] = complexity_computer(estimator)

\* C17 as stated: with n_samples = 0 and a non-empty value list,
\* benchmark_influence returns nothing and its failure is the division by
\* zero of the first iteration.
C17_FailsAveraging ==
    ZeroSamples => (NothingMeasured /\ (error # "none" => FailedAveraging))

\* C17: with n_samples = 0 and a non-empty value list, benchmark_influence
\* never returns result sequences, makes no predict call and records no
\* latency and no error; unless the first fit raises, it fails in the first
\* iteration with the division by zero of the latency average, after the
\* first estimator has been fit and one complexity appended; and it does fail.
C17_FailsAveragingUnlessFitRaises ==
    /\ [](ZeroSamples =>
            (NothingMeasured /\ (error \notin {"none", "fit"} => FailedAveraging)))
    /\ (ZeroSamples ~> (error = "fit" \/ FailedAveraging))

C17_Witness ==
    /\ ZeroSamples /\ FailedAveraging /\ NothingMeasured
    /\ Len(values) = 2
    /\ call_log = SubSeq(IterationCalls(<<conf_i, 1>>, 0), 1, 6)

\* ---------------------------------------------------------------- C18
EmptyRange == script = "oob" /\ max_estimators < min_estimators

NothingFit ==
    /\ \A c \in 1..Len(ensemble_clfs) : ensemble_clfs[c].clf.fits = 0
    /\ \A l \in DOMAIN error_rate.lists : error_rate.lists[l] = <<>>

NothingPlotted ==
    /\ plot_i = 0 /\ data = <<>> /\ fig = NoValue
    /\ pc # "done"
    /\ error # "none" => (error = "ValueError" /\ pc = "for_label")

\* C18: when max_estimators < min_estimators, the OOB loop performs no fit and
\* leaves every list of error_rate empty, and the plot step fails unpacking the
\* empty series of the first label, so that no trace and no figure is built.
C18_EmptyRangeFailsInPlot ==
    /\ [](EmptyRange => (NothingFit /\ NothingPlotted))
    /\ (EmptyRange ~> (error = "ValueError" /\ pc = "for_label"))

C18_Witness ==
    /\ EmptyRange /\ error = "ValueError" /\ pc = "for_label"
    /\ Len(ensemble_clfs) = 2 /\ clf_i = 2
    /\ NothingFit /\ NothingPlotted
====
